---- MODULE Spec2Model ----
(***************************************************************************)
(* Model of Neural/utils.py: the relation-extraction data loader (Dataset, *)
(* its batching, padding and sorting helpers) and the weighted scorer.     *)
(***************************************************************************)
EXTENDS Integers, Sequences, FiniteSets, TLC

VARIABLES
    pc,              \* position of the caller: before or after the call under study
    file_instances,  \* content of the JSON instance file (what json.load returns)
    instances,       \* the caller's in-memory raw instance list (list of dicts)
    dset,            \* the Dataset object built by the last Dataset(...) call
    pos_args,        \* arguments of a get_positions call
    pos_ret,         \* its return value
    pad_args,        \* arguments of a get_padded_tensor call
    pad_ret,         \* its return value
    eval_args,       \* arguments of an eval call
    eval_ret         \* its return value (prec, recall, f1)

vars == <<pc, file_instances, instances, dset, pos_args, pos_ret,
          pad_args, pad_ret, eval_args, eval_ret>>

dataset_vars == <<file_instances, instances, dset>>
pos_vars == <<pos_args, pos_ret>>
pad_vars == <<pad_args, pad_ret>>
eval_vars == <<eval_args, eval_ret>>

(***************************************************************************)
(* Program constants (utils.py lines 17-28).                               *)
(***************************************************************************)
PAD_TOKEN == "<PAD>"
PAD_ID == 0
UNK_TOKEN == "<UNK>"
UNK_ID == 1
NO_RELATION == 0
MAXLEN == 300

(***************************************************************************)
(* Bounds of the model.                                                    *)
(***************************************************************************)
MaxPosLength == 6      \* get_positions: start, end, length range over 0..MaxPosLength
MaxPadRows == 2        \* get_padded_tensor: number of sequences in tokens_list
MaxEvalLen == 3        \* eval: length of pred / labels
MaxWeight == 2         \* eval: weights range over 0..MaxWeight
MaxInstances == 2      \* Dataset: length of the raw instance list
MaxBatchSize == 2      \* Dataset: batch_size ranges over 1..MaxBatchSize

(***************************************************************************)
(* Python list primitives.                                                 *)
(***************************************************************************)
\* A Python list is a sequence.  List(f) is the sequence f itself, built
\* element by element (TLC would otherwise keep a sequence written as a
\* function expression unevaluated and recompute it at every use).
List(f) == f \o <<>>

Min(a, b) == IF a < b THEN a ELSE b
Max(a, b) == IF a > b THEN a ELSE b

\* list(range(a, b))
Range(a, b) == IF b > a THEN List([i \in 1..(b - a) |-> a + i - 1]) ELSE <<>>

\* [x] * n
Repeat(x, n) == IF n > 0 THEN List([i \in 1..n |-> x]) ELSE <<>>

\* s[a:b] for 0 <= a, 0 <= b (indices are 0-based, b exclusive, clipped)
Slice(s, a, b) == SubSeq(s, Min(a, Len(s)) + 1, Min(b, Len(s)))

\* max(len(x) for x in list) of a non-empty list
MaxLenOf(list) ==
    CHOOSE m \in {Len(list[i]) : i \in 1..Len(list)} :
        \A i \in 1..Len(list) : Len(list[i]) <= m

RECURSIVE SumSeq(_)
SumSeq(s) == IF s = <<>> THEN 0 ELSE Head(s) + SumSeq(Tail(s))

(***************************************************************************)
(* get_positions (lines 199-202).                                          *)
(***************************************************************************)
get_positions_short(start_idx, end_idx, length) ==
    Range(-start_idx, 0) \o Repeat(0, end_idx - start_idx + 1)
        \o Range(1, length - end_idx - 1)

get_positions(start_idx, end_idx, length) ==
    Range(-start_idx, 0) \o Repeat(0, end_idx - start_idx + 1)
        \o Range(1, length - end_idx)

(***************************************************************************)
(* get_padded_tensor (lines 166-174).  A tensor is a sequence of rows.     *)
(***************************************************************************)
get_padded_tensor_nocap(tokens_list, batch_size) ==
    LET token_len == MaxLenOf(tokens_list)
        pad_len == token_len
    IN  List([i \in 1..batch_size |->
            IF i <= Len(tokens_list)
            THEN LET s == tokens_list[i]
                     cur_len == Min(pad_len, Len(s))
                 IN  Slice(s, 0, cur_len) \o Repeat(PAD_ID, pad_len - cur_len)
            ELSE Repeat(PAD_ID, pad_len)])

get_padded_tensor(tokens_list, batch_size) ==
    LET token_len == MaxLenOf(tokens_list)
        pad_len == Min(token_len, MAXLEN)
    IN  List([i \in 1..batch_size |->
            IF i <= Len(tokens_list)
            THEN LET s == tokens_list[i]
                     cur_len == Min(pad_len, Len(s))
                 IN  Slice(s, 0, cur_len) \o Repeat(PAD_ID, pad_len - cur_len)
            ELSE Repeat(PAD_ID, pad_len)])

\* IndexError / ValueError cases of get_padded_tensor: max() of an empty
\* list (line 168), or a row index beyond the allocated rows (line 173).
get_padded_tensor_raises(tokens_list, batch_size) ==
    tokens_list = <<>> \/ batch_size < Len(tokens_list)

(***************************************************************************)
(* Python float results of eval are modelled as exact non-negative         *)
(* fractions <<n, d>> in lowest terms.                                     *)
(***************************************************************************)
RECURSIVE GCD(_, _)
GCD(a, b) == IF b = 0 THEN a ELSE GCD(b, a % b)

Frac(n, d) == LET g == GCD(n, d) IN <<n \div g, d \div g>>
FZero == <<0, 1>>
FAdd(x, y) == Frac(x[1] * y[2] + y[1] * x[2], x[2] * y[2])
FMul(x, y) == Frac(x[1] * y[1], x[2] * y[2])
FDiv(x, y) == Frac(x[1] * y[2], x[2] * y[1])
FPos(x) == x[1] > 0

(***************************************************************************)
(* eval (lines 216-248).                                                   *)
(***************************************************************************)
\* one iteration of the scoring loop (lines 223-236), weighting by the guess
eval_step_byguess(acc, gold, guess, weights) ==
    IF gold = NO_RELATION /\ guess = NO_RELATION THEN acc
    ELSE IF gold = NO_RELATION /\ guess # NO_RELATION THEN
        [acc EXCEPT !.guessed_by_relation = @ + weights[guess]]
    ELSE IF gold # NO_RELATION /\ guess = NO_RELATION THEN
        [acc EXCEPT !.gold_by_relation = @ + weights[gold]]
    ELSE IF gold # NO_RELATION /\ guess # NO_RELATION THEN
        [acc EXCEPT !.guessed_by_relation = @ + weights[guess],
                    !.gold_by_relation = @ + weights[gold],
                    !.correct_by_relation =
                        IF gold = guess THEN @ + weights[gold] ELSE @]
    ELSE acc

\* one iteration of the scoring loop (lines 223-236)
eval_step(acc, gold, guess, weights) ==
    IF gold = NO_RELATION /\ guess = NO_RELATION THEN acc
    ELSE IF gold = NO_RELATION /\ guess # NO_RELATION THEN
        [acc EXCEPT !.guessed_by_relation = @ + weights[gold]]
    ELSE IF gold # NO_RELATION /\ guess = NO_RELATION THEN
        [acc EXCEPT !.gold_by_relation = @ + weights[gold]]
    ELSE IF gold # NO_RELATION /\ guess # NO_RELATION THEN
        [acc EXCEPT !.guessed_by_relation = @ + weights[gold],
                    !.gold_by_relation = @ + weights[gold],
                    !.correct_by_relation =
                        IF gold = guess THEN @ + weights[gold] ELSE @]
    ELSE acc

\* for idx in range(len(pred)) (line 222); idx is 0-based
RECURSIVE eval_loop(_, _, _, _, _)
eval_loop(pred, labels, weights, idx, acc) ==
    IF idx >= Len(pred) THEN acc
    ELSE eval_loop(pred, labels, weights, idx + 1,
                   eval_step(acc, labels[idx + 1], pred[idx + 1], weights))

eval(pred, labels, weights) ==
    LET c == eval_loop(pred, labels, weights, 0,
                       [correct_by_relation |-> 0,
                        guessed_by_relation |-> 0,
                        gold_by_relation |-> 0])
        prec == IF c.guessed_by_relation > 0
                THEN Frac(c.correct_by_relation, c.guessed_by_relation)
                ELSE FZero
        recall == IF c.gold_by_relation > 0
                  THEN Frac(c.correct_by_relation, c.gold_by_relation)
                  ELSE FZero
        f1 == IF FPos(FAdd(prec, recall))
              THEN FDiv(FMul(FMul(<<2, 1>>, prec), recall), FAdd(prec, recall))
              ELSE FZero
    IN  [prec |-> prec, recall |-> recall, f1 |-> f1]

(***************************************************************************)
(* Vocabularies.  ner2id and pos2id are the module's tables (lines 24-25); *)
(* word2id is the caller's word vocabulary.  The two quote tags of pos2id  *)
(* (ids 23 and 24) are written RQUOTE and LQUOTE.                          *)
(***************************************************************************)
ner2id ==
    ("<PAD>" :> 0) @@ ("<UNK>" :> 1) @@ ("NATIONALITY" :> 2) @@ ("SET" :> 3)
    @@ ("ORDINAL" :> 4) @@ ("ORGANIZATION" :> 5) @@ ("MONEY" :> 6)
    @@ ("PERCENT" :> 7) @@ ("URL" :> 8) @@ ("DURATION" :> 9)
    @@ ("PERSON" :> 10) @@ ("CITY" :> 11) @@ ("CRIMINAL_CHARGE" :> 12)
    @@ ("DATE" :> 13) @@ ("TIME" :> 14) @@ ("NUMBER" :> 15)
    @@ ("STATE_OR_PROVINCE" :> 16) @@ ("RELIGION" :> 17) @@ ("MISC" :> 18)
    @@ ("CAUSE_OF_DEATH" :> 19) @@ ("LOCATION" :> 20) @@ ("TITLE" :> 21)
    @@ ("O" :> 22) @@ ("COUNTRY" :> 23) @@ ("IDEOLOGY" :> 24)

pos2id ==
    ("<PAD>" :> 0) @@ ("<UNK>" :> 1) @@ ("NNP" :> 2) @@ ("NN" :> 3)
    @@ ("IN" :> 4) @@ ("DT" :> 5) @@ ("," :> 6) @@ ("JJ" :> 7) @@ ("NNS" :> 8)
    @@ ("VBD" :> 9) @@ ("CD" :> 10) @@ ("CC" :> 11) @@ ("." :> 12)
    @@ ("RB" :> 13) @@ ("VBN" :> 14) @@ ("PRP" :> 15) @@ ("TO" :> 16)
    @@ ("VB" :> 17) @@ ("VBG" :> 18) @@ ("VBZ" :> 19) @@ ("PRP$" :> 20)
    @@ (":" :> 21) @@ ("POS" :> 22) @@ ("RQUOTE" :> 23) @@ ("LQUOTE" :> 24)
    @@ ("-RRB-" :> 25) @@ ("-LRB-" :> 26) @@ ("VBP" :> 27) @@ ("MD" :> 28)
    @@ ("NNPS" :> 29) @@ ("WP" :> 30) @@ ("WDT" :> 31) @@ ("WRB" :> 32)
    @@ ("RP" :> 33) @@ ("JJR" :> 34) @@ ("JJS" :> 35) @@ ("$" :> 36)
    @@ ("FW" :> 37) @@ ("RBR" :> 38) @@ ("SYM" :> 39) @@ ("EX" :> 40)
    @@ ("RBS" :> 41) @@ ("WP$" :> 42) @@ ("PDT" :> 43) @@ ("LS" :> 44)
    @@ ("UH" :> 45) @@ ("#" :> 46)

word2id ==
    ("<PAD>" :> 0) @@ ("<UNK>" :> 1) @@ ("bob" :> 2) @@ ("lives" :> 3)
    @@ ("in" :> 4) @@ ("paris" :> 5) @@ ("the" :> 6) @@ ("Bob" :> 7)
    @@ ("Paris" :> 8) @@ ("SUBJ-PERSON" :> 9) @@ ("OBJ-CITY" :> 10)
    @@ ("SUBJ-O" :> 11) @@ ("OBJ-O" :> 12) @@ ("SUBJ-ORGANIZATION" :> 13)

\* str.lower() on the strings that occur in the modelled corpus
Lower(t) ==
    CASE t = "Bob" -> "bob"
      [] t = "Paris" -> "paris"
      [] t = "The" -> "the"
      [] t = "Acme" -> "acme"
      [] t = "SUBJ-PERSON" -> "subj-person"
      [] t = "SUBJ-ORGANIZATION" -> "subj-organization"
      [] t = "SUBJ-O" -> "subj-o"
      [] t = "OBJ-CITY" -> "obj-city"
      [] t = "OBJ-PERSON" -> "obj-person"
      [] t = "OBJ-O" -> "obj-o"
      [] OTHER -> t

\* the concatenations SUBJ- + type and OBJ- + type on the entity types of the modelled corpus
StrCat(prefix, type) ==
    CASE prefix = "SUBJ-" /\ type = "PERSON" -> "SUBJ-PERSON"
      [] prefix = "SUBJ-" /\ type = "ORGANIZATION" -> "SUBJ-ORGANIZATION"
      [] prefix = "OBJ-" /\ type = "CITY" -> "OBJ-CITY"
      [] prefix = "OBJ-" /\ type = "PERSON" -> "OBJ-PERSON"

(***************************************************************************)
(* map_to_ids (lines 195-197).                                             *)
(***************************************************************************)
map_to_ids(tokens, vocab) ==
    List([i \in 1..Len(tokens) |->
        IF tokens[i] \in DOMAIN vocab THEN vocab[tokens[i]] ELSE UNK_ID])

(***************************************************************************)
(* sort_all (lines 204-208).  batch is the tuple of columns; the rows are  *)
(* ordered as sorted(..., reverse=True) orders the tuples (len, index,     *)
(* fields...): the index is unique, so the fields never decide.            *)
(***************************************************************************)
\* row i (0-based) precedes row j in the result
SortsBefore(lens, i, j) ==
    lens[i + 1] > lens[j + 1] \/ (lens[i + 1] = lens[j + 1] /\ i > j)

SortedIndices(lens) ==
    LET n == Len(lens)
        rank(i) == Cardinality({j \in 0..(n - 1) : SortsBefore(lens, j, i)})
    IN  List([k \in 1..n |-> CHOOSE i \in 0..(n - 1) : rank(i) = k - 1])

AscendingIndices(lens) ==
    LET n == Len(lens)
        rank(i) == Cardinality({j \in 0..(n - 1) : SortsBefore(lens, i, j)})
    IN  List([k \in 1..n |-> CHOOSE i \in 0..(n - 1) : rank(i) = k - 1])

\* sort_all returning the unsorted range as the original indices
sort_all_range(batch, lens) ==
    LET idx == SortedIndices(lens)
    IN  [batch |-> List([f \in 1..Len(batch) |->
                       List([k \in 1..Len(lens) |-> batch[f][idx[k] + 1]])]),
         orig_idx |-> Range(0, Len(lens))]

\* sort_all without reverse=True
sort_all_ascending(batch, lens) ==
    LET idx == AscendingIndices(lens)
    IN  [batch |-> List([f \in 1..Len(batch) |->
                       List([k \in 1..Len(lens) |-> batch[f][idx[k] + 1]])]),
         orig_idx |-> idx]

sort_all(batch, lens) ==
    LET idx == SortedIndices(lens)
    IN  [batch |-> List([f \in 1..Len(batch) |->
                       List([k \in 1..Len(lens) |-> batch[f][idx[k] + 1]])]),
         orig_idx |-> idx]

(***************************************************************************)
(* recover_idx (lines 210-214).                                            *)
(***************************************************************************)
RECURSIVE recover_idx_loop(_, _, _)
recover_idx_loop(orig_idx, idx, orig2now) ==
    IF idx >= Len(orig_idx) THEN orig2now
    ELSE recover_idx_loop(orig_idx, idx + 1,
                          [orig2now EXCEPT ![orig_idx[idx + 1] + 1] = idx])

recover_idx(orig_idx) ==
    recover_idx_loop(orig_idx, 0, Repeat(0, Len(orig_idx)))

(***************************************************************************)
(* Dataset.get_id_maps (lines 153-164).                                    *)
(***************************************************************************)
InList(x, list) == \E i \in 1..Len(list) : list[i] = x

RECURSIVE rel_set_loop(_, _, _)
rel_set_loop(insts, i, rel_set) ==
    IF i > Len(insts) THEN rel_set
    ELSE LET rel == insts[i].relation
         IN  rel_set_loop(insts, i + 1,
                 IF ~InList(rel, rel_set) THEN Append(rel_set, rel)
                 ELSE rel_set)

\* the enumerate loop of lines 161-162
EnumerateIds(rel_set) ==
    [rel \in {rel_set[i] : i \in 1..Len(rel_set)} |->
        (CHOOSE i \in 1..Len(rel_set) :
            rel_set[i] = rel
            /\ \A j \in 1..Len(rel_set) : rel_set[j] = rel => j <= i) - 1]

\* get_id_maps with rel_set starting empty: no_relation is numbered where it
\* first occurs (last when it does not occur)
get_id_maps_unforced(insts) ==
    LET rel_set == rel_set_loop(insts, 1, <<>>)
    IN  EnumerateIds(IF InList("no_relation", rel_set) THEN rel_set
                     ELSE Append(rel_set, "no_relation"))

get_id_maps(insts) ==
    EnumerateIds(rel_set_loop(insts, 1, <<"no_relation">>))

(***************************************************************************)
(* Dataset.__init__ (lines 52-151).                                        *)
(***************************************************************************)
\* tokens[a:b] = x for 0 <= a, 0 <= b (Python slice assignment, clipped)
SliceAssign(s, a, b, x) ==
    LET lo == Min(a, Len(s))
        hi == Max(lo, Min(b, Len(s)))
    IN  SubSeq(s, 1, lo) \o x \o SubSeq(s, hi + 1, Len(s))

\* the discard test of line 82, without the NER length comparison
length_filter_tokens_only(instance) ==
    Len(instance.token) > MAXLEN

\* the discard test of line 82
length_filter(instance) ==
    \/ Len(instance.token) > MAXLEN
    \/ Len(instance.token) # Len(instance.stanford_ner)

\* lines 85-97: the token list after lowercasing and masking
anonymize(instance, lower, use_mask, mask_with_type) ==
    LET tokens == IF lower
                  THEN List([i \in 1..Len(instance.token) |->
                                Lower(instance.token[i])])
                  ELSE instance.token
        ss == instance.subj_start
        se == instance.subj_end
        os == instance.obj_start
        oe == instance.obj_end
        subj == IF mask_with_type THEN StrCat("SUBJ-", instance.subj_type)
                ELSE "SUBJ-O"
        obj == IF mask_with_type THEN StrCat("OBJ-", instance.obj_type)
               ELSE "OBJ-O"
    IN  IF use_mask
        THEN SliceAssign(
                 SliceAssign(tokens, ss, se + 1, Repeat(subj, se - ss + 1)),
                 os, oe + 1, Repeat(obj, oe - os + 1))
        ELSE tokens

\* lines 111-113: rel_cnt is a dict, kept here in insertion order
count_rel(rel_cnt, rel) ==
    IF \E i \in 1..Len(rel_cnt) : rel_cnt[i].rel = rel
    THEN List([i \in 1..Len(rel_cnt) |->
             IF rel_cnt[i].rel = rel
             THEN [rel_cnt[i] EXCEPT !.cnt = @ + 1] ELSE rel_cnt[i]])
    ELSE Append(rel_cnt, [rel |-> rel, cnt |-> 1])

\* one iteration of the preprocessing loop (lines 79-115).  st.objects is
\* the list of instance dicts as the iteration leaves them: without
\* lowercasing, `tokens` aliases instance['token'] and the slice
\* assignments of lines 93-97 write into the caller's list.
preprocess_step(st, instance, rel2id, lower, use_mask, mask_with_type) ==
    IF length_filter(instance)
    THEN [st EXCEPT !.discard = @ + 1, !.objects = Append(@, instance)]
    ELSE
        LET l == Len(instance.token)
            masked == anonymize(instance, lower, use_mask, mask_with_type)
            after == IF lower THEN instance
                     ELSE [instance EXCEPT !.token = masked]
            tokens == map_to_ids(masked, word2id)
            pos == map_to_ids(instance.stanford_pos, pos2id)
            ner == map_to_ids(instance.stanford_ner, ner2id)
            subj_positions == get_positions(instance.subj_start,
                                            instance.subj_end, l)
            obj_positions == get_positions(instance.obj_start,
                                           instance.obj_end, l)
        IN  IF instance.relation \in DOMAIN rel2id
            THEN [st EXCEPT
                    !.rel_cnt = count_rel(@, instance.relation),
                    !.data = Append(@, <<tokens, pos, ner, subj_positions,
                                         obj_positions,
                                         rel2id[instance.relation]>>),
                    !.labels = Append(@, rel2id[instance.relation]),
                    !.objects = Append(@, after)]
            ELSE [st EXCEPT !.discard = @ + 1, !.objects = Append(@, after)]

RECURSIVE preprocess(_, _, _, _, _, _, _)
preprocess(insts, i, st, rel2id, lower, use_mask, mask_with_type) ==
    IF i > Len(insts) THEN st
    ELSE preprocess(insts, i + 1,
                    preprocess_step(st, insts[i], rel2id, lower, use_mask,
                                    mask_with_type),
                    rel2id, lower, use_mask, mask_with_type)

\* lines 120-125: the count array indexed by relation id
RECURSIVE fill_counts(_, _, _, _)
fill_counts(rel_cnt, i, rel2id, arr) ==
    IF i > Len(rel_cnt) THEN arr
    ELSE fill_counts(rel_cnt, i + 1, rel2id,
                     [arr EXCEPT ![rel2id[rel_cnt[i].rel]] = rel_cnt[i].cnt])

ArraySum(arr, n) == SumSeq([i \in 1..n |-> arr[i - 1]])

\* largest entry of a non-empty array of naturals
ArrayMax(arr, n) ==
    CHOOSE m \in {arr[i] : i \in 0..(n - 1)} :
        \A i \in 0..(n - 1) : arr[i] <= m

\* lines 121-128: rel_distrib; an entry <<0, 0>> is the NaN of 0/0
rel_distrib_of(counts, n) ==
    LET total == ArraySum(counts, n)
    IN  [r \in 0..(n - 1) |->
            IF total = 0 THEN <<0, 0>> ELSE Frac(counts[r], total)]

\* lines 120-127: log_prior; an entry [num, den] stands for
\* log(num) - log(den), where a relation never counted has log 1 = 0
log_prior_of(counts, n) ==
    LET logs == [r \in 0..(n - 1) |-> IF counts[r] = 0 THEN 1 ELSE counts[r]]
        max_log == ArrayMax(logs, n)
    IN  [r \in 0..(n - 1) |-> [num |-> logs[r], den |-> max_log]]

\* lines 131-132: [list[i:i + batch_size] for i in range(0, datasize, batch_size)]
Chunks(list, batch_size) ==
    List([k \in 1..((Len(list) + batch_size - 1) \div batch_size) |->
        Slice(list, (k - 1) * batch_size, k * batch_size)])

\* lines 135-140: zip(*batch), lens and sort_all for one chunk
sort_chunk(chunk) ==
    LET batch == List([f \in 1..6 |->
                          List([i \in 1..Len(chunk) |-> chunk[i][f]])])
        lens == List([i \in 1..Len(chunk) |-> Len(batch[1][i])])
    IN  sort_all(batch, lens)

\* lines 142-148: the tuple appended to batched_data for one chunk
pad_chunk(sorted, batch_size) ==
    [words |-> get_padded_tensor(sorted.batch[1], batch_size),
     pos |-> get_padded_tensor(sorted.batch[2], batch_size),
     ner |-> get_padded_tensor(sorted.batch[3], batch_size),
     subj_pos |-> get_padded_tensor(sorted.batch[4], batch_size),
     obj_pos |-> get_padded_tensor(sorted.batch[5], batch_size),
     relations |-> sorted.batch[6],
     orig_idx |-> sorted.orig_idx]

\* The whole constructor on the instance list `insts` (lines 62-151).
\* rel2id is None unless `given`.  indices is the index list of lines 70-71
\* (range(datasize) when shuffle is off).  The result holds the object's
\* attributes, the locals the constructor reports or that the batches are
\* built from, the arguments, and the instance dicts as the constructor
\* leaves them.
DatasetInit(insts, given, rel2id_arg, indices, batch_size, lower, use_mask, mask_with_type) ==
    LET rel2id == IF given THEN rel2id_arg ELSE get_id_maps(insts)
        shuffled == List([i \in 1..Len(insts) |-> insts[indices[i] + 1]])
        st == preprocess(shuffled, 1,
                         [data |-> <<>>, labels |-> <<>>, discard |-> 0,
                          rel_cnt |-> <<>>, objects |-> <<>>],
                         rel2id, lower, use_mask, mask_with_type)
        n == Cardinality(DOMAIN rel2id)
        counts == fill_counts(st.rel_cnt, 1, rel2id, [r \in 0..(n - 1) |-> 0])
        batched == Chunks(st.data, batch_size)
        sorted == List([k \in 1..Len(batched) |-> sort_chunk(batched[k])])
    IN  [dset |->
            [rel2id |-> rel2id,
             datasize |-> Len(st.data),
             log_prior |-> log_prior_of(counts, n),
             rel_distrib |-> rel_distrib_of(counts, n),
             batched_label |-> Chunks(st.labels, batch_size),
             batched_data |-> List([k \in 1..Len(batched) |->
                                  pad_chunk(sorted[k], Len(batched[k]))]),
             data |-> st.data,
             sorted_batches |-> sorted,
             discard |-> st.discard,
             args |-> [rel2id_given |-> given,
                       batch_size |-> batch_size, lower |-> lower,
                       use_mask |-> use_mask,
                       mask_with_type |-> mask_with_type,
                       indices |-> indices]],
         instances |->
            List([j \in 1..Len(insts) |->
                st.objects[CHOOSE i \in 1..Len(insts) : indices[i] = j - 1]])]

\* values of the variables no call has set
NoCall == <<>>
NoTensor == [raised |-> FALSE, tensor |-> <<>>]
NoScore == [prec |-> FZero, recall |-> FZero, f1 |-> FZero]

(***************************************************************************)
(* The modelled corpus: raw instances in the input record schema.          *)
(***************************************************************************)
Instance(token, pos, ner, ss, se, st, os, oe, ot, relation) ==
    [token |-> token, stanford_pos |-> pos, stanford_ner |-> ner,
     subj_start |-> ss, subj_end |-> se, subj_type |-> st,
     obj_start |-> os, obj_end |-> oe, obj_type |-> ot,
     relation |-> relation]

LongTokens(n) ==
    List([i \in 1..n |-> IF i % 3 = 1 THEN "Bob"
                         ELSE IF i % 3 = 2 THEN "lives" ELSE "in"])

\* a well-formed sentence of four tokens
InstCity ==
    Instance(<<"Bob", "lives", "in", "Paris">>, <<"NNP", "VBZ", "IN", "NNP">>,
             <<"PERSON", "O", "O", "CITY">>, 0, 0, "PERSON", 3, 3, "CITY", "A")
\* a well-formed sentence of two tokens without a relation
InstNone ==
    Instance(<<"The", "Acme">>, <<"DT", "NNP">>, <<"O", "ORGANIZATION">>,
             1, 1, "ORGANIZATION", 0, 0, "PERSON", "no_relation")
\* NER sequence shorter than the token sequence
InstNerShort ==
    Instance(<<"Bob", "in", "Paris">>, <<"NNP", "IN", "NNP">>,
             <<"PERSON", "O">>, 0, 0, "PERSON", 2, 2, "CITY", "A")
\* one token more than MAXLEN
InstTooLong ==
    Instance(LongTokens(MAXLEN + 1), Repeat("NN", MAXLEN + 1),
             Repeat("O", MAXLEN + 1), 0, 1, "PERSON",
             MAXLEN - 1, MAXLEN, "CITY", "B")
\* exactly MAXLEN tokens
InstMaxLen ==
    Instance(LongTokens(MAXLEN), Repeat("NN", MAXLEN), Repeat("O", MAXLEN),
             0, 1, "PERSON", MAXLEN - 2, MAXLEN - 1, "CITY", "B")
\* POS sequence longer than the token sequence, a third relation
InstPosLong ==
    Instance(<<"Paris", "Bob">>, <<"NNP", "NNP", "NNP">>, <<"CITY", "PERSON">>,
             1, 1, "PERSON", 0, 0, "CITY", "C")

InstancePool ==
    {InstCity, InstNone, InstNerShort, InstTooLong, InstMaxLen, InstPosLong}

InstanceLists == UNION {[1..n -> InstancePool] : n \in 0..MaxInstances}

\* relation vocabularies a caller supplies (load_rel2id, lines 40-43)
SuppliedRel2ids ==
    {("no_relation" :> 0) @@ ("A" :> 1) @@ ("B" :> 2),
     ("A" :> 0) @@ ("no_relation" :> 1) @@ ("C" :> 2)}

\* the index lists random.shuffle can leave (lines 70-71)
Indices(n) ==
    {p \in [1..n -> 0..(n - 1)] :
        \A i, j \in 1..n : i # j => p[i] # p[j]}

(***************************************************************************)
(* The caller: the instance file is loaded with json.load and a Dataset is *)
(* built from the loaded list (Spec).  In SpecReuse the caller goes on:    *)
(* the Dataset is dropped and the next one is built from the same list, or *)
(* after loading the file again.                                           *)
(***************************************************************************)
Init ==
    /\ pc = "idle"
    /\ file_instances \in InstanceLists
    /\ instances = file_instances
    /\ dset = NoCall
    /\ pos_args = NoCall /\ pos_ret = <<>>
    /\ pad_args = NoCall /\ pad_ret = NoTensor
    /\ eval_args = NoCall /\ eval_ret = NoScore

\* json.load of the instance file (lines 58-59, 177-178): a fresh list
LoadInstances ==
    /\ pc = "idle"
    /\ instances # file_instances
    /\ instances' = file_instances
    /\ UNCHANGED <<pc, file_instances, dset, pos_vars, pad_vars, eval_vars>>

\* Dataset(instances, args, word2id, device, rel2id, shuffle, batch_size,
\*         mask_with_type, use_mask); rel2id is None unless given.
\* shuffle is on exactly when indices is not range(datasize): a shuffle may
\* leave any order, the identity included.  mask_with_type is read only
\* under use_mask and keeps its default (True) otherwise.
NewDataset(given, rel2id_arg) ==
    /\ pc = "idle"
    /\ \E lower, use_mask \in BOOLEAN, batch_size \in 1..MaxBatchSize :
         \E mask_with_type \in IF use_mask THEN BOOLEAN ELSE {TRUE},
            indices \in Indices(Len(instances)) :
            LET r == DatasetInit(instances, given, rel2id_arg, indices,
                                 batch_size, lower, use_mask, mask_with_type)
            IN  /\ dset' = r.dset
                /\ instances' = r.instances
    /\ pc' = "built"
    /\ UNCHANGED <<file_instances, pos_vars, pad_vars, eval_vars>>

DatasetWithoutRel2id == NewDataset(FALSE, <<>>)

DatasetWithRel2id == \E rel2id \in SuppliedRel2ids : NewDataset(TRUE, rel2id)

\* the Dataset is dropped wholesale before a new one is built
DiscardDataset ==
    /\ pc = "built"
    /\ pc' = "idle"
    /\ dset' = NoCall
    /\ UNCHANGED <<file_instances, instances, pos_vars, pad_vars, eval_vars>>

Next ==
    \/ DatasetWithoutRel2id
    \/ DatasetWithRel2id

Spec == Init /\ [][Next]_vars

NextReuse ==
    \/ DatasetWithoutRel2id
    \/ DatasetWithRel2id
    \/ DiscardDataset
    \/ LoadInstances

SpecReuse == Init /\ [][NextReuse]_vars

(***************************************************************************)
(* Callers of the pure helpers: the arguments are drawn from bounded sets  *)
(* and one call is made.                                                   *)
(***************************************************************************)

\* ---- get_positions -------------------------------------------------------
PosInputs ==
    [start_idx : 0..MaxPosLength, end_idx : 0..MaxPosLength,
     length : 0..MaxPosLength]

InitPos ==
    /\ pc = "ready"
    /\ pos_args \in PosInputs
    /\ pos_ret = <<>>
    /\ pad_args = NoCall /\ pad_ret = NoTensor
    /\ eval_args = NoCall /\ eval_ret = NoScore
    /\ file_instances = <<>> /\ instances = <<>> /\ dset = NoCall

CallGetPositions ==
    /\ pc = "ready"
    /\ pos_ret' = get_positions(pos_args.start_idx, pos_args.end_idx,
                                pos_args.length)
    /\ pc' = "done"
    /\ UNCHANGED <<pos_args, pad_vars, eval_vars, dataset_vars>>

SpecPos == InitPos /\ [][CallGetPositions]_vars

\* ---- get_padded_tensor ---------------------------------------------------
\* id sequences of a given length: ids cycle through 0, 1, 2 from an offset
PadSeq(n, c) == List([i \in 1..n |-> (i + c) % 3])

PadLengths == {0, 1, 2, MAXLEN - 1, MAXLEN, MAXLEN + 1, MAXLEN + 2}
PadPool == {PadSeq(n, c) : n \in PadLengths, c \in {0, 1}}
PadLists == UNION {[1..n -> PadPool] : n \in 0..MaxPadRows}

InitPad ==
    /\ pc = "ready"
    /\ pad_args \in [tokens_list : PadLists, batch_size : 0..(MaxPadRows + 1)]
    /\ pad_ret = NoTensor
    /\ pos_args = NoCall /\ pos_ret = <<>>
    /\ eval_args = NoCall /\ eval_ret = NoScore
    /\ file_instances = <<>> /\ instances = <<>> /\ dset = NoCall

CallGetPaddedTensor ==
    /\ pc = "ready"
    /\ ~get_padded_tensor_raises(pad_args.tokens_list, pad_args.batch_size)
    /\ pad_ret' = [raised |-> FALSE,
                   tensor |-> get_padded_tensor(pad_args.tokens_list,
                                                pad_args.batch_size)]
    /\ pc' = "done"
    /\ UNCHANGED <<pad_args, pos_vars, eval_vars, dataset_vars>>

CallGetPaddedTensorRaises ==
    /\ pc = "ready"
    /\ get_padded_tensor_raises(pad_args.tokens_list, pad_args.batch_size)
    /\ pad_ret' = [raised |-> TRUE, tensor |-> <<>>]
    /\ pc' = "done"
    /\ UNCHANGED <<pad_args, pos_vars, eval_vars, dataset_vars>>

NextPad == CallGetPaddedTensor \/ CallGetPaddedTensorRaises

SpecPad == InitPad /\ [][NextPad]_vars

\* ---- eval ----------------------------------------------------------------
\* relation ids seen by the scorer: NO_RELATION and two relations
RelIds == {NO_RELATION, 1, 2}

EvalInputs ==
    UNION {[pred : [1..n -> RelIds], labels : [1..n -> RelIds],
            weights : [RelIds -> 0..MaxWeight]] : n \in 0..MaxEvalLen}

InitEval ==
    /\ pc = "ready"
    /\ eval_args \in EvalInputs
    /\ eval_ret = NoScore
    /\ pos_args = NoCall /\ pos_ret = <<>>
    /\ pad_args = NoCall /\ pad_ret = NoTensor
    /\ file_instances = <<>> /\ instances = <<>> /\ dset = NoCall

CallEval ==
    /\ pc = "ready"
    /\ eval_ret' = eval(eval_args.pred, eval_args.labels, eval_args.weights)
    /\ pc' = "done"
    /\ UNCHANGED <<eval_args, pos_vars, pad_vars, dataset_vars>>

SpecEval == InitEval /\ [][CallEval]_vars

(***************************************************************************)
(* C5: for 0 <= start <= end < length, get_positions returns exactly       *)
(* `length` values: i - start before the span, 0 on the span, i - end      *)
(* after it (so 0 exactly on the span, negative and increasing before it,  *)
(* positive and increasing after it).                                      *)
(***************************************************************************)
PosValid ==
    /\ 0 <= pos_args.start_idx
    /\ pos_args.start_idx <= pos_args.end_idx
    /\ pos_args.end_idx < pos_args.length

C5_GetPositions ==
    (pc = "done" /\ PosValid) =>
        LET s == pos_args.start_idx
            e == pos_args.end_idx
            at(i) == pos_ret[i + 1]
        IN  /\ Len(pos_ret) = pos_args.length
            /\ \A i \in 0..(pos_args.length - 1) :
                   /\ i < s => at(i) = i - s /\ at(i) < 0
                   /\ (s <= i /\ i <= e) => at(i) = 0
                   /\ i > e => at(i) = i - e /\ at(i) > 0
                   /\ (at(i) = 0) <=> (s <= i /\ i <= e)
            /\ \A i, j \in 0..(pos_args.length - 1) :
                   (i < j /\ (j < s \/ i > e)) => at(i) < at(j)

C5_Witness ==
    /\ pc = "done"
    /\ pos_args.start_idx >= 2
    /\ pos_args.end_idx > pos_args.start_idx
    /\ pos_args.length >= pos_args.end_idx + 3
    /\ Len(pos_ret) = pos_args.length

(***************************************************************************)
(* C6: for a non-empty list of id sequences and batch_size = its length,   *)
(* get_padded_tensor returns one row per sequence, of width                *)
(* min(longest length, 300); row i is sequence i truncated to that width   *)
(* and followed only by the padding id 0.                                  *)
(***************************************************************************)
C6_PaddedTensor ==
    (pc = "done" /\ pad_args.tokens_list # <<>>
        /\ pad_args.batch_size = Len(pad_args.tokens_list)) =>
        LET l == pad_args.tokens_list
            t == pad_ret.tensor
            longest == CHOOSE m \in 0..(MAXLEN + 2) :
                           /\ \E i \in 1..Len(l) : Len(l[i]) = m
                           /\ \A i \in 1..Len(l) : Len(l[i]) <= m
            width == IF longest < MAXLEN THEN longest ELSE MAXLEN
        IN  /\ ~pad_ret.raised
            /\ Len(t) = Len(l)
            /\ \A i \in 1..Len(l) :
                   /\ Len(t[i]) = width
                   /\ \A j \in 1..width :
                          t[i][j] = IF j <= Len(l[i]) THEN l[i][j] ELSE 0

C6_Witness ==
    /\ pc = "done"
    /\ ~pad_ret.raised
    /\ Len(pad_args.tokens_list) = 2
    /\ pad_args.batch_size = 2
    /\ Len(pad_args.tokens_list[1]) = 2
    /\ Len(pad_args.tokens_list[2]) = MAXLEN + 1
    /\ Len(pad_ret.tensor[1]) = MAXLEN
    /\ Len(pad_ret.tensor[2]) = MAXLEN

(***************************************************************************)
(* C2: eval returns the weighted micro-average in which every pair is      *)
(* weighted by the gold id's weight: guessed sums weights[gold] over the   *)
(* pairs with pred # 0, gold-total over the pairs with gold # 0, correct   *)
(* over the pairs with pred = gold # 0; precision = correct/guessed,       *)
(* recall = correct/gold-total, f1 = 2PR/(P+R), each 0 when its            *)
(* denominator is 0; empty and all-no-relation input give (0,0,0).         *)
(***************************************************************************)
\* sum of weights[gold] over the positions whose (gold, pred) pair is in S
GoldWeightOver(S) ==
    SumSeq([i \in 1..Len(eval_args.pred) |->
               IF <<eval_args.labels[i], eval_args.pred[i]>> \in S
               THEN eval_args.weights[eval_args.labels[i]] ELSE 0])

C2_WeightedMicroAverage ==
    pc = "done" =>
        LET Pairs == RelIds \X RelIds
            guessed == GoldWeightOver({p \in Pairs : p[2] # 0})
            goldtot == GoldWeightOver({p \in Pairs : p[1] # 0})
            correct == GoldWeightOver({p \in Pairs : p[1] # 0 /\ p[1] = p[2]})
            P == IF guessed = 0 THEN FZero ELSE Frac(correct, guessed)
            R == IF goldtot = 0 THEN FZero ELSE Frac(correct, goldtot)
            F == IF FAdd(P, R) = FZero THEN FZero
                 ELSE FDiv(FMul(<<2, 1>>, FMul(P, R)), FAdd(P, R))
        IN  /\ eval_ret = [prec |-> P, recall |-> R, f1 |-> F]
            /\ (\A i \in 1..Len(eval_args.pred) :
                    eval_args.pred[i] = 0 /\ eval_args.labels[i] = 0)
                   => eval_ret = NoScore

C2_Witness ==
    /\ pc = "done"
    /\ \E i, j, k \in 1..Len(eval_args.pred) :
           /\ eval_args.labels[i] = 0 /\ eval_args.pred[i] # 0
           /\ eval_args.weights[0] # eval_args.weights[eval_args.pred[i]]
           /\ eval_args.weights[0] > 0
           /\ eval_args.labels[j] # 0 /\ eval_args.pred[j] = 0
           /\ eval_args.labels[k] # 0 /\ eval_args.pred[k] = eval_args.labels[k]
    /\ eval_ret.f1 # FZero
    /\ eval_ret.prec # eval_ret.recall

(***************************************************************************)
(* Properties of a built Dataset.                                          *)
(***************************************************************************)
Built == pc = "built"

RECURSIVE ConcatAll(_)
ConcatAll(lists) ==
    IF lists = <<>> THEN <<>> ELSE Head(lists) \o ConcatAll(Tail(lists))

\* the raw instances in the order the constructor processed them
Processed == [i \in 1..Len(file_instances) |->
                 file_instances[dset.args.indices[i] + 1]]

\* s cut or padded with the padding id to width w
PadTo(s, w) == [j \in 1..w |-> IF j <= Len(s) THEN s[j] ELSE 0]

BatchSizeOf(k) == Len(dset.batched_data[k].relations)

(***************************************************************************)
(* C1: batching is order-recoverable: in every batch orig_idx is a         *)
(* permutation of 0..chunk size-1, and putting the instance at sorted      *)
(* position k back at index orig_idx[k] and concatenating the batches in   *)
(* chunk order gives the retained instances in their pre-batch order.      *)
(***************************************************************************)
\* batch k with its rows put back where recover_idx(orig_idx) finds them
Restored(k) ==
    LET sorted == dset.sorted_batches[k]
        orig2now == recover_idx(sorted.orig_idx)
    IN  [j \in 1..Len(sorted.orig_idx) |->
            [f \in 1..6 |-> sorted.batch[f][orig2now[j] + 1]]]

C1_OrderRecoverable ==
    Built =>
        /\ \A k \in 1..Len(dset.batched_data) :
               LET orig_idx == dset.batched_data[k].orig_idx
               IN  /\ Len(orig_idx) = BatchSizeOf(k)
                   /\ {orig_idx[i] : i \in 1..Len(orig_idx)}
                          = 0..(BatchSizeOf(k) - 1)
                   /\ orig_idx = dset.sorted_batches[k].orig_idx
                   /\ dset.batched_data[k].relations
                          = dset.sorted_batches[k].batch[6]
        /\ ConcatAll([k \in 1..Len(dset.batched_data) |-> Restored(k)])
               = dset.data

C1_Witness ==
    /\ Built
    /\ Len(dset.batched_data) = 1
    /\ dset.batched_data[1].orig_idx = <<1, 0>>
    /\ Len(dset.data[1][1]) = Len(dset.data[2][1])
    /\ dset.data[1] # dset.data[2]

(***************************************************************************)
(* C9: the batches are the contiguous chunks of the retained list in       *)
(* order: ceil(N/b) batches, none empty, all but possibly the last of      *)
(* size b; within a batch the rows are in non-increasing token length, and *)
(* a row's relation id and five sequences come from one instance.          *)
(***************************************************************************)
\* the retained instance that row i of batch k holds
RowInstance(k, i) ==
    dset.data[(k - 1) * dset.args.batch_size
                  + dset.batched_data[k].orig_idx[i] + 1]

C9_ContiguousSortedChunks ==
    Built =>
        LET N == Len(dset.data)
            b == dset.args.batch_size
            nb == Len(dset.batched_data)
        IN  /\ dset.datasize = N
            /\ nb * b >= N /\ (nb - 1) * b < N
            /\ \A k \in 1..nb :
                   LET bd == dset.batched_data[k]
                       size == BatchSizeOf(k)
                   IN  /\ size >= 1
                       /\ k < nb => size = b
                       /\ k = nb => size = N - (nb - 1) * b
                       /\ \A i \in 1..size :
                              LET inst == RowInstance(k, i)
                              IN  /\ bd.relations[i] = inst[6]
                                  /\ bd.words[i] = PadTo(inst[1], Len(bd.words[i]))
                                  /\ bd.pos[i] = PadTo(inst[2], Len(bd.pos[i]))
                                  /\ bd.ner[i] = PadTo(inst[3], Len(bd.ner[i]))
                                  /\ bd.subj_pos[i]
                                         = PadTo(inst[4], Len(bd.subj_pos[i]))
                                  /\ bd.obj_pos[i]
                                         = PadTo(inst[5], Len(bd.obj_pos[i]))
                                  /\ Len(bd.words[i]) >= Len(inst[1])
                       /\ \A i \in 1..(size - 1) :
                              Len(RowInstance(k, i)[1])
                                  >= Len(RowInstance(k, i + 1)[1])

C9_Witness ==
    /\ Built
    /\ dset.args.batch_size = 2
    /\ dset.args.indices = <<1, 0>>
    /\ Len(dset.data) = 2
    /\ Len(dset.data[1][1]) < Len(dset.data[2][1])
    /\ Len(dset.batched_data) = 1
    /\ dset.batched_data[1].orig_idx = <<1, 0>>

(***************************************************************************)
(* C3: the number of raw instances is the discard count plus the sizes of  *)
(* all batches; an instance is discarded exactly when it has more than 300 *)
(* tokens, its NER length differs from its token length, or its relation   *)
(* is not in the active vocabulary (it is never mapped to no-relation).    *)
(***************************************************************************)
Discardable(instance) ==
    \/ Len(instance.token) > 300
    \/ Len(instance.stanford_ner) # Len(instance.token)
    \/ instance.relation \notin DOMAIN dset.rel2id

C3_DiscardAccounting ==
    Built =>
        LET Kept(instance) == ~Discardable(instance)
            kept == SelectSeq(Processed, Kept)
        IN  /\ Len(instances) = dset.discard
                   + SumSeq([k \in 1..Len(dset.batched_data) |-> BatchSizeOf(k)])
            /\ dset.discard
                   = Cardinality({i \in 1..Len(file_instances) :
                                     Discardable(file_instances[i])})
            /\ Len(dset.data) = Len(kept)
            /\ \A i \in 1..Len(kept) :
                   dset.data[i][6] = dset.rel2id[kept[i].relation]

C3_Witness ==
    /\ Built
    /\ Len(file_instances) = 2
    /\ dset.discard = 1
    /\ Len(dset.batched_data) = 1
    /\ \E i \in 1..2 :
           /\ file_instances[i].relation \notin DOMAIN dset.rel2id
           /\ Len(file_instances[i].token) <= 300
           /\ Len(file_instances[i].stanford_ner) = Len(file_instances[i].token)

(***************************************************************************)
(* C4: without a supplied vocabulary, get_id_maps gives the n distinct     *)
(* relation strings (no_relation included) the ids 0..n-1, injectively:    *)
(* no_relation gets 0 wherever or whether it occurs, the others get        *)
(* 1, 2, ... in order of first occurrence.                                 *)
(***************************************************************************)
FirstOccurrence(rel) ==
    CHOOSE i \in 1..Len(file_instances) :
        /\ file_instances[i].relation = rel
        /\ \A j \in 1..(i - 1) : file_instances[j].relation # rel

C4_IdMaps ==
    (Built /\ ~dset.args.rel2id_given) =>
        LET m == dset.rel2id
            seen == {file_instances[i].relation : i \in 1..Len(file_instances)}
            rels == seen \cup {"no_relation"}
        IN  /\ DOMAIN m = rels
            /\ {m[r] : r \in rels} = 0..(Cardinality(rels) - 1)
            /\ \A r, t \in rels : m[r] = m[t] => r = t
            /\ m["no_relation"] = 0
            /\ \A r, t \in seen \ {"no_relation"} :
                   (m[r] < m[t]) <=> (FirstOccurrence(r) < FirstOccurrence(t))

C4_Witness ==
    /\ Built
    /\ ~dset.args.rel2id_given
    /\ Len(file_instances) = 2
    /\ file_instances[1].relation = "C"
    /\ file_instances[2].relation = "no_relation"
    /\ dset.rel2id = ("no_relation" :> 0) @@ ("C" :> 1)

(***************************************************************************)
(* C8: rel_distrib is indexed by relation id, its entry for r is           *)
(* count(r)/N over the N retained instances, and its entries sum to 1, in  *)
(* every run, also when nothing is retained.                               *)
(***************************************************************************)
\* the sum of the first n entries of an array of fractions
RECURSIVE FSum(_, _)
FSum(d, n) == IF n = 0 THEN FZero ELSE FAdd(FSum(d, n - 1), d[n - 1])

C8_RelDistrib ==
    Built =>
        LET N == Len(dset.data)
            n == Cardinality(DOMAIN dset.rel2id)
            count(r) == Cardinality({i \in 1..N : dset.data[i][6] = r})
            d == dset.rel_distrib
        IN  /\ DOMAIN d = 0..(n - 1)
            /\ \A r \in 0..(n - 1) : d[r][2] # 0
            /\ \A r \in 0..(n - 1) : N > 0 => d[r] = Frac(count(r), N)
            /\ FSum(d, n) = <<1, 1>>

(***************************************************************************)
(* C10: in every batch the five padded arrays have the same shape,         *)
(* (chunk size) x min(longest token sequence in the chunk, 300).           *)
(***************************************************************************)
HasShape(tensor, rows, width) ==
    /\ Len(tensor) = rows
    /\ \A i \in 1..rows : Len(tensor[i]) = width

C10_SameShape ==
    Built =>
        \A k \in 1..Len(dset.batched_data) :
            LET bd == dset.batched_data[k]
                size == BatchSizeOf(k)
                longest == CHOOSE m \in 0..300 :
                               /\ \E i \in 1..size : Len(RowInstance(k, i)[1]) = m
                               /\ \A i \in 1..size : Len(RowInstance(k, i)[1]) <= m
                width == IF longest < 300 THEN longest ELSE 300
            IN  /\ HasShape(bd.words, size, width)
                /\ HasShape(bd.pos, size, width)
                /\ HasShape(bd.ner, size, width)
                /\ HasShape(bd.subj_pos, size, width)
                /\ HasShape(bd.obj_pos, size, width)

(***************************************************************************)
(* C7: building a Dataset leaves every raw instance's token sequence as it *)
(* was, so a Dataset built from a list that was used before holds the same *)
(* encoded instances as one built from a fresh copy of the file.           *)
(***************************************************************************)
C7_PureAnonymization ==
    /\ instances = file_instances
    /\ Built =>
           dset.data
               = DatasetInit(file_instances, TRUE, dset.rel2id,
                             dset.args.indices, dset.args.batch_size,
                             dset.args.lower, dset.args.use_mask,
                             dset.args.mask_with_type).dset.data

====
